---- MODULE Spec2Model ----
\* Nestable (non-reentrant) activation checkpointing of
\* torch/utils/checkpoint.py, lines 520-818: the frames, the holders and
\* handles, the global stack of checkpoint stacks, the two saved-tensor hooks
\* and _checkpoint_impl, executed by an explicit Python call stack.
\*
\* A run is one top-level checkpointed call of a user function followed by
\* restores (unpack_hook calls) of the placeholders that call left in the
\* autograd graph.  User functions are small fixed programs of tensor
\* operations (each saves one tensor), nested checkpoint calls and
\* torch.autograd.grad calls.  Further specifications add a later top-level
\* call (SpecAgain), a later call that runs a backward pass over the output
\* of the call before (SpecBackward), the freeing of the saved inputs of a
\* nested region (SpecRelease), and checkpoint_sequential (SpecSequential).
EXTENDS Integers, Sequences, FiniteSets, TLC

\* ------------------------------------------------------------------ bounds
\* Number of restores requested from the top level in one run.
MaxRestore == 3

\* Number of top-level checkpointed calls in one run that may make several.
MaxForward == 2

\* Longest list of functions and largest number of segments given to
\* checkpoint_sequential.
MaxFunctions == 7

MaxSegments == 8

\* ------------------------------------------------------------ small helpers
None == 0

Last(q) == q[Len(q)]

Front(q) == SubSeq(q, 1, Len(q) - 1)

Range(q) == {q[i] : i \in 1..Len(q)}

RECURSIVE Reverse(_)
Reverse(q) == IF q = <<>> THEN <<>> ELSE Append(Reverse(Tail(q)), Head(q))

\* Python dict d[k] = v and the read d.get(k, dflt) of a defaultdict.
Put(d, k, v) == [x \in (DOMAIN d) \cup {k} |-> IF x = k THEN v ELSE d[x]]

Get(d, k, dflt) == IF k \in DOMAIN d THEN d[k] ELSE dflt

\* Python list(range(a, b)).
RECURSIVE PyRange(_, _)
PyRange(a, b) == IF a >= b THEN <<>> ELSE <<a>> \o PyRange(a + 1, b)

\* ------------------------------------------------------------------ tensors
\* A tensor is named by the operation that produced it (function, step,
\* output number), by the run that produced it (the frame being recomputed and
\* the backward identifier, 0 and 0 in the original forward), by the number of
\* saves that run had performed before it, and by whether it is detached.
NoVal == [fn |-> "", step |-> 0, arg |-> 0, frame |-> 0, gid |-> 0, ord |-> 0,
          detached |-> FALSE]

Tensor(fn, step, arg, run, ord) ==
    [fn |-> fn, step |-> step, arg |-> arg, frame |-> run[1], gid |-> run[2],
     ord |-> ord, detached |-> FALSE]

\* The tensor itself, still attached to its graph.
attached(x) == x

\* x.detach() (lines 654 and 661)
detach(x) == [x EXCEPT !.detached = TRUE]

Content(x) == <<x.fn, x.step, x.arg>>

\* ------------------------------------------------------------ user functions
\* One step of a user function: a tensor operation that saves its input for
\* backward, a nested checkpoint(fn, args) call, or torch.autograd.grad over the
\* graph built so far by this invocation of the function.
\* The user function raises an exception of its own.
OpRaise ==
    [op |-> "raise", fn |-> "", nargs |-> 0, retain |-> FALSE, forward_only |-> FALSE,
     earlier |-> FALSE]

\* forward_only marks a step that fn makes and recompute_fn does not: the two
\* are separate callables of _checkpoint_impl and need not replay each other.
OpSave ==
    [op |-> "save", fn |-> "", nargs |-> 0, retain |-> FALSE, forward_only |-> FALSE,
     earlier |-> FALSE]

OpSaveForward == [OpSave EXCEPT !.forward_only = TRUE]

OpCall(fn, nargs) ==
    [op |-> "call", fn |-> fn, nargs |-> nargs, retain |-> FALSE, forward_only |-> FALSE,
     earlier |-> FALSE]

OpGrad(retain) ==
    [op |-> "grad", fn |-> "", nargs |-> 0, retain |-> retain, forward_only |-> FALSE,
     earlier |-> FALSE]

\* torch.autograd.grad(out, x, retain_graph=True) over the output of an earlier
\* top-level checkpointed call, which the function closes over.
OpGradEarlier == [OpGrad(TRUE) EXCEPT !.earlier = TRUE]

Body(fn) ==
    CASE fn = "leaf"    -> <<OpSave, OpSave>>
      [] fn = "nest"    -> <<OpSave, OpCall("leaf", 1), OpSave>>
      [] fn = "mid"     -> <<OpSave, OpGrad(FALSE), OpSave>>
      [] fn = "nestmid" -> <<OpCall("mid", 1)>>
      [] fn = "flaky"   -> <<OpSave, OpSaveForward>>
      [] fn = "bad"     -> <<OpSave, OpRaise>>
      [] fn = "nestbad" -> <<OpCall("bad", 1)>>
      [] fn = "wrap"    -> <<OpCall("leaf", 0)>>
      [] fn = "back"    -> <<OpGradEarlier, OpSave>>
      [] OTHER          -> <<>>

\* frame.recompute_fn: the steps of fn that are replayed.
recompute_fn(fn) == SelectSeq(Body(fn), LAMBDA o : ~o.forward_only)

\* The functions checkpointed from the top level.
Roots == {"leaf", "nest", "mid", "nestmid", "flaky", "bad", "nestbad", "wrap"}

\* The functions checkpointed by a later top-level call.
LaterRoots == {"leaf"}

\* The functions of a later top-level call that run a backward pass over the
\* output of the call before.
BackwardRoots == {"back"}

\* ------------------------------------------------------------------ objects
\* Optional[...] fields: None is the empty tuple, a value v is <<v>>.
NoneType == <<>>

Some(v) == <<v>>

IsNone(o) == Len(o) = 0

\* _CheckpointFrame.  recomputed maps <<gid, handle>> to a tensor (the
\* defaultdict of WeakKeyDictionary, flattened), recomp_counter maps gid to a
\* count (absent: 0), is_recomputed is the set of gids whose flag is True.
\* closure is what fn and recompute_fn close over: the saved tensors of the
\* graph of an earlier output.  parent, pushed and inputs are ghost fields:
\* the frame save_args_to_parent was applied to, whether line 814 pushed the
\* frame, and the tensors the region was entered with.
NewFrame(fn, args, closure) ==
    [recompute_fn |-> fn, maybe_args |-> NoneType, args_idx |-> NoneType,
     child_args_idx |-> <<>>, weak_holders |-> <<>>, recomputed |-> <<>>,
     recomp_counter |-> <<>>, is_recomputed |-> {}, closure |-> closure,
     parent |-> 0, pushed |-> FALSE, inputs |-> [j \in 1..Len(args) |-> Content(args[j])]]

\* _Holder: handle is a handle id or None; alive is whether the weak reference
\* the frame keeps still resolves.  orig, frame, pos, stale and gids are ghost
\* fields: the tensor the placeholder stands for, where it was recorded,
\* whether it was consumed with no recomputation of its frame started since,
\* and the identifiers it was consumed under.
NewHolder(handle, x, frame, pos) ==
    [handle |-> handle, alive |-> TRUE, orig |-> Content(x), frame |-> frame,
     pos |-> pos, stale |-> FALSE, gids |-> {}]

\* What autograd keeps for one saved tensor: the pair (holder, frames) the outer
\* pack hook returned, or the tensor itself (inner pack hook, or no hook).
\* input marks the saved inputs of _NoopSaveInputs, whose backward never reads
\* them.
NoObj == [t |-> "none", holder |-> 0, frames |-> <<>>, val |-> NoVal, input |-> FALSE]

HolderObj(holder, frames, input) ==
    [t |-> "holder", holder |-> holder, frames |-> frames, val |-> NoVal, input |-> input]

RawObj(x, input) ==
    [t |-> "raw", holder |-> 0, frames |-> <<>>, val |-> x, input |-> input]

\* _CheckpointStack
CheckpointStack(stack, is_recompute) == [stack |-> stack, is_recompute |-> is_recompute]

\* An entry of the saved_tensors_hooks stack.
CheckpointHook == [kind |-> "checkpoint", frame |-> 0, gid |-> 0]

RecomputationHook(frame, gid) == [kind |-> "recomputation", frame |-> frame, gid |-> gid]

\* What the last step did (a ghost record the properties read).
NoEvent ==
    [kind |-> "none", frame |-> 0, holder |-> 0, gid |-> 0, handle |-> 0, pos |-> 0,
     val |-> NoVal, args |-> <<>>, frames |-> <<>>, stacks |-> <<>>, orig |-> FALSE]

\* ------------------------------------------------------------- call stack
\* One activation of the Python call stack.  k is
\*   "body"   a user function running (fn, pc, args, run, nsave, saved, closure),
\*   "impl"   _checkpoint_impl waiting at line 816 (frame, entry),
\*   "unpack" _checkpoint_hook.unpack_hook (holder, frames, gid, i, running),
\*   "grad"   torch.autograd.grad restoring saved tensors (todo, retain).
NoAct ==
    [k |-> "", fn |-> "", pc |-> 0, args |-> <<>>, run |-> <<0, 0>>, nsave |-> 0,
     saved |-> <<>>, frame |-> 0, entry |-> 0, holder |-> 0, frames |-> <<>>,
     gid |-> 0, i |-> 0, running |-> FALSE, stacks |-> <<>>, todo |-> <<>>,
     retain |-> FALSE, closure |-> <<>>]

BodyAct(fn, args, run, closure) ==
    [NoAct EXCEPT !.k = "body", !.fn = fn, !.pc = 1, !.args = args, !.run = run,
                  !.closure = closure]

ImplAct(frame, entry) == [NoAct EXCEPT !.k = "impl", !.frame = frame, !.entry = entry]

UnpackAct(holder, frames, gid, stacks) ==
    [NoAct EXCEPT !.k = "unpack", !.holder = holder, !.frames = frames, !.gid = gid,
                  !.stacks = stacks]

GradAct(todo, retain) == [NoAct EXCEPT !.k = "grad", !.todo = todo, !.retain = retain]


\* ------------------------------------------------------------------- state
\* The program state as one record s, so that every handler below is a
\* function from state to state.  The variables of the specification are the
\* fields of this record.
InitState(early_stop) ==
    [frames |-> <<>>,            \* every _CheckpointFrame created, by id
     holders |-> <<>>,           \* every _Holder created, by id
     nhandles |-> 0,             \* number of _Handle objects created
     checkpoint_stacks |-> <<CheckpointStack(<<>>, FALSE)>>,
     hooks |-> <<>>,             \* the saved_tensors_hooks stack
     calls |-> <<>>,             \* the Python call stack, innermost last
     exc |-> "none",             \* the exception being propagated
     graph_task |-> <<>>,        \* graph tasks being executed, innermost last
     ngid |-> 0,                 \* identifiers handed out so far
     graph |-> <<>>,             \* saved tensors of the top-level graph
     results |-> <<>>,           \* outcomes seen by the user, oldest first
     ncalls |-> <<>>,            \* <<frame, gid>> -> calls of recompute_fn
     enable_checkpoint_early_stop |-> early_stop,
     nforward |-> 0,             \* top-level checkpointed calls made
     failed |-> FALSE,           \* an exception reached the user
     nrestore |-> 0,             \* restores requested from the top level
     event |-> NoEvent]

Raise(s, e) == [s EXCEPT !.exc = e]

Idle(s) == s.calls = <<>> /\ s.exc = "none"

TopAct(s) == s.calls[Len(s.calls)]

TopIs(s, k) == s.calls # <<>> /\ s.exc = "none" /\ TopAct(s).k = k

\* torch._C._current_graph_task_id(): the innermost graph task, or -1.
current_graph_task_id(s) == IF s.graph_task = <<>> THEN -1 ELSE Last(s.graph_task)

\* A dictionary that keeps its keys alive: nothing is ever dropped.
StrongKeyDictionary(frames, hs) == frames

\* weakref.WeakKeyDictionary: when the handles hs are collected, every
\* recomputed[gid] loses its entries for them.
WeakKeyDictionary(frames, hs) ==
    [f \in DOMAIN frames |->
        [frames[f] EXCEPT !.recomputed =
            [key \in {k \in DOMAIN @ : k[2] \notin hs} |-> @[key]]]]

\* The holders of the saved objects objs are released by the graph that owned
\* them: their weak references die, and so do their handles.
ReleaseSaved(s, objs) ==
    LET hs == {objs[j].holder : j \in {j \in 1..Len(objs) : objs[j].t = "holder"}}
        handles == {s.holders[h].handle : h \in hs} \ {None}
    IN [s EXCEPT
          !.holders = [h \in DOMAIN @ |->
                          IF h \in hs THEN [@[h] EXCEPT !.alive = FALSE, !.handle = None]
                          ELSE @[h]],
          !.frames = WeakKeyDictionary(@, handles)]

\* ------------------------------------------------------------- pack hooks
\* One handle object given out at every call.
HandleShared(nhandles) == 1

\* _Handle() (lines 652 and 675): an object that did not exist before.
Handle(nhandles) == nhandles + 1

\* _checkpoint_hook.pack_hook
\* The first frame of the stack entry.
outermost(current_frames) == Head(current_frames)

\* top_frame = current_frames[-1] (line 673)
innermost(current_frames) == Last(current_frames)

\* The frames captured innermost first.
tupleReversed(current_frames) == Reverse(current_frames)

\* tuple(current_frames) (line 678): the frames of the stack at this instant.
tuple(current_frames) == current_frames

checkpoint_hook_pack_hook(s, x, input) ==
    LET current_frames == Last(s.checkpoint_stacks).stack
    IN IF current_frames = <<>>
       THEN [st |-> Raise(s, "IndexError"), obj |-> NoObj]
       ELSE LET top_frame == innermost(current_frames)
                handle == Handle(s.nhandles)
                holder == Len(s.holders) + 1
                pos == Len(s.frames[top_frame].weak_holders)
            IN [st |-> [s EXCEPT
                          !.nhandles = handle,
                          !.holders = Append(@, NewHolder(handle, x, top_frame, pos)),
                          !.frames[top_frame].weak_holders = Append(@, holder),
                          !.event = [NoEvent EXCEPT !.kind = "pack_outer",
                                        !.frame = top_frame, !.holder = holder,
                                        !.handle = handle, !.pos = pos,
                                        !.frames = current_frames]],
                obj |-> HolderObj(holder, tuple(current_frames), input)]

\* The position read without the per-identifier counter.
RecompIdxStuck(fr, gid) == 0

\* recomp_idx = target_frame.recomp_counter[gid] (line 644)
RecompIdx(fr, gid) == Get(fr.recomp_counter, gid, 0)

\* _recomputation_hook.pack_hook
\* A cleared handle is left cleared.
NeedsHandleNever(h) == FALSE

\* if holder.handle is None (line 650)
NeedsHandle(h) == h.handle = None

\* A reference that always resolves.
StrongRef(hold, holder) == TRUE

\* target_frame.weak_holders[recomp_idx]() is not None (lines 646-648)
WeakRef(hold, holder) == hold[holder].alive

recomputation_hook_pack_hook(s, target_frame, gid, x, input) ==
    LET fr == s.frames[target_frame]
        recomp_idx == RecompIdx(fr, gid)
        s1 == [s EXCEPT !.frames[target_frame].recomp_counter =
                           Put(@, gid, recomp_idx + 1)]
    IN IF recomp_idx >= Len(fr.weak_holders)
       THEN [st |-> Raise(s1, "IndexError"), obj |-> NoObj]
       ELSE LET holder == fr.weak_holders[recomp_idx + 1]
                fresh == NeedsHandle(s1.holders[holder])
                handle == IF fresh THEN Handle(s1.nhandles) ELSE s1.holders[holder].handle
                val == IF recomp_idx \in Range(fr.child_args_idx) THEN x ELSE detach(x)
                ev == [NoEvent EXCEPT !.kind = "pack_inner", !.frame = target_frame,
                          !.gid = gid, !.pos = recomp_idx, !.holder = holder, !.val = val]
                s2 == IF WeakRef(s1.holders, holder)
                      THEN [s1 EXCEPT
                              !.nhandles = IF fresh THEN handle ELSE @,
                              !.holders[holder].handle = handle,
                              !.frames[target_frame].recomputed = Put(@, <<gid, handle>>, val),
                              !.event = [ev EXCEPT !.handle = handle]]
                      ELSE [s1 EXCEPT !.event = ev]
            IN IF s.enable_checkpoint_early_stop
                  /\ recomp_idx + 1 = Len(fr.weak_holders)
               THEN [st |-> Raise(s2, "_StopRecomputationError"), obj |-> NoObj]
               ELSE [st |-> s2, obj |-> RawObj(detach(x), input)]

\* The hooks context entered first.
OutermostHooks(hooks) == Head(hooks)

\* The hooks in force inside nested with blocks (lines 701 and 815): those of
\* the context entered last.
CurrentHooks(hooks) == Last(hooks)

\* torch.autograd.graph.saved_tensors_hooks: a tensor saved for backward goes
\* through the pack hook of the innermost hooks context, if there is one.
SaveTensor(s, x, input) ==
    IF s.hooks = <<>> THEN [st |-> s, obj |-> RawObj(x, input)]
    ELSE IF CurrentHooks(s.hooks).kind = "checkpoint"
    THEN checkpoint_hook_pack_hook(s, x, input)
    ELSE recomputation_hook_pack_hook(s, CurrentHooks(s.hooks).frame,
                                      CurrentHooks(s.hooks).gid, x, input)

\* _applyAutogradFunctionToSaveInputs: _NoopSaveInputs saves every input, in
\* order; an exception of a pack hook ends it.
RECURSIVE applyAutogradFunctionToSaveInputs(_, _, _)
applyAutogradFunctionToSaveInputs(s, args, objs) ==
    LET Then(r) == applyAutogradFunctionToSaveInputs(r.st, Tail(args),
                       IF r.st.exc = "none" THEN Append(objs, r.obj) ELSE objs)
    IN IF args = <<>> \/ s.exc # "none" THEN [st |-> s, objs |-> objs]
       ELSE Then(SaveTensor(s, Head(args), TRUE))

\* indices = list(range(parent_pre_len, len(parent_frame.weak_holders)))
\* The positions counted from zero, not from the length before the save.
ArgsIndicesFromZero(parent_pre_len, parent_len) == PyRange(0, parent_len - parent_pre_len)

ArgsIndices(parent_pre_len, parent_len) == PyRange(parent_pre_len, parent_len)

\* The positions are not added to the list.
extendNothing(list, items) == list

\* parent_frame.child_args_idx.extend(indices) (line 615)
extend(list, items) == list \o items

\* _CheckpointFrame.save_args_to_parent
save_args_to_parent(s, self, parent_frame, args) ==
    LET parent_pre_len == Len(s.frames[parent_frame].weak_holders)
        Record(r, indices) ==
            IF r.st.exc # "none" THEN r
            ELSE [st |-> [r.st EXCEPT
                             !.frames[parent_frame].child_args_idx = extend(@, indices),
                             !.frames[self].args_idx = Some(indices),
                             !.frames[self].parent = parent_frame],
                  objs |-> r.objs]
        Saved(r) ==
            Record(r, ArgsIndices(parent_pre_len,
                                  Len(r.st.frames[parent_frame].weak_holders)))
    IN Saved(applyAutogradFunctionToSaveInputs(s, args, <<>>))

\* _CheckpointFrame.get_args_from_parent
RECURSIVE get_args_from_parent(_, _, _, _, _)
get_args_from_parent(s, idxs, parent_frame, gid, out) ==
    IF idxs = <<>> THEN [exc |-> "none", args |-> out]
    ELSE LET idx == Head(idxs)
             pf == s.frames[parent_frame]
         IN IF idx >= Len(pf.weak_holders) THEN [exc |-> "IndexError", args |-> out]
            ELSE LET holder == pf.weak_holders[idx + 1]
                 IN IF ~s.holders[holder].alive
                    THEN [exc |-> "AssertionError", args |-> out]
                    ELSE IF s.holders[holder].handle = None
                    THEN [exc |-> "TypeError", args |-> out]
                    ELSE IF <<gid, s.holders[holder].handle>> \notin DOMAIN pf.recomputed
                    THEN [exc |-> "KeyError", args |-> out]
                    ELSE get_args_from_parent(s, Tail(idxs), parent_frame, gid,
                            Append(out, pf.recomputed[<<gid, s.holders[holder].handle>>]))

\* ------------------------------------------------------ _checkpoint_impl
\* The inputs are not kept on the frame.
OwnArgsNone(args) == NoneType

\* new_frame.maybe_args = args (lines 810 and 812)
OwnArgs(args) == Some(args)

\* What the user sees of one top-level operation or of one restore made by the
\* original forward: a restored tensor, a completed call, or an exception.
Outcome(what, x) == [what |-> what, val |-> Content(x)]

\* _checkpoint_impl up to the call of fn at line 816: the new frame, its input
\* provenance, the push on the current stack and the _checkpoint_hook context.
\* The saved inputs belong to the graph of the calling function.
checkpoint_impl(s, fn, args) ==
    LET entry == Len(s.checkpoint_stacks)
        curr_stack == s.checkpoint_stacks[entry].stack
        is_curr_stack_recompute == s.checkpoint_stacks[entry].is_recompute
        new_frame == Len(s.frames) + 1
        \* a function called from the top level closes over the earlier output
        closure == IF s.calls = <<>> THEN s.graph ELSE <<>>
        s0 == [s EXCEPT !.frames = Append(@, NewFrame(fn, args, closure))]
        Own(a) ==
            IF a.st.exc # "none" THEN a
            ELSE [st |-> [a.st EXCEPT !.frames[new_frame].maybe_args = OwnArgs(args)],
                  objs |-> a.objs]
        Caller(t, n, objs) ==
            IF n = 0 THEN t.calls
            ELSE [t.calls EXCEPT ![n].saved = @ \o objs, ![n].nsave = @ + Len(args)]
        Call(t, objs) ==
            IF t.exc # "none" THEN t
            ELSE [t EXCEPT
                    !.checkpoint_stacks[entry].stack = Append(@, new_frame),
                    !.frames[new_frame].pushed = TRUE,
                    !.hooks = Append(@, CheckpointHook),
                    !.calls = Caller(t, Len(t.calls), objs)
                                \o <<ImplAct(new_frame, entry),
                                      BodyAct(fn, args, <<0, 0>>, closure)>>,
                    !.event = [NoEvent EXCEPT !.kind = "enter", !.frame = new_frame,
                                  !.args = args, !.pos = Len(objs),
                                  !.frames = curr_stack,
                                  !.orig = is_curr_stack_recompute]]
        With(r) == Call(r.st, r.objs)
    IN IF Len(curr_stack) > 0
       THEN With(save_args_to_parent(s0, new_frame, Last(curr_stack), args))
       ELSE IF is_curr_stack_recompute
       THEN With(Own(applyAutogradFunctionToSaveInputs(s0, args, <<>>)))
       ELSE With([st |-> [s0 EXCEPT !.frames[new_frame].maybe_args = OwnArgs(args)],
                  objs |-> <<>>])

\* --------------------------------------------------- the user function
\* The steps of a running user function: fn(*args) at line 816,
\* frame.recompute_fn(*args) at line 702.
Code(a) == IF a.run = <<0, 0>> THEN Body(a.fn) ELSE recompute_fn(a.fn)

CurOp(s) == Code(TopAct(s))[TopAct(s).pc]

CanBody(s, op) ==
    /\ TopIs(s, "body")
    /\ TopAct(s).pc <= Len(Code(TopAct(s)))
    /\ CurOp(s).op = op

\* A tensor operation of the user function saves one tensor for backward.
BodySave(s) ==
    LET n == Len(s.calls)
        a == s.calls[n]
        Saved(r) ==
            IF r.st.exc # "none" THEN r.st
            ELSE [r.st EXCEPT !.calls[n].pc = @ + 1,
                              !.calls[n].nsave = @ + 1,
                              !.calls[n].saved = Append(@, r.obj)]
    IN Saved(SaveTensor(s, Tensor(a.fn, a.pc, 0, a.run, a.nsave), FALSE))

\* The user function calls checkpoint(fn, args) on tensors it computed.
BodyCall(s) ==
    LET a == TopAct(s)
        args == [j \in 1..CurOp(s).nargs |->
                    Tensor(a.fn, a.pc, j, a.run, a.nsave + j - 1)]
    IN checkpoint_impl(s, CurOp(s).fn, args)

\* The user function calls torch.autograd.grad: a new graph task, which will
\* restore the saved tensors of the graph built so far, or of the earlier
\* output, last saved first.
BodyGrad(s) ==
    LET a == TopAct(s)
        todo == Reverse(SelectSeq(IF CurOp(s).earlier THEN a.closure ELSE a.saved,
                                  LAMBDA o : ~o.input))
    IN [s EXCEPT !.ngid = @ + 1,
                 !.graph_task = Append(@, s.ngid + 1),
                 !.calls = Append(@, GradAct(todo, CurOp(s).retain)),
                 !.event = [NoEvent EXCEPT !.kind = "grad", !.gid = s.ngid + 1]]

\* The user function raises.
BodyRaise(s) ==
    [s EXCEPT !.exc = "UserError", !.event = [NoEvent EXCEPT !.kind = "user_raise"]]

\* unpack of a saved tensor by the engine: the hooks that packed it decide.
CanGradUnpack(s) == TopIs(s, "grad") /\ TopAct(s).todo # <<>>

GradUnpack(s) ==
    LET n == Len(s.calls)
        o == Head(s.calls[n].todo)
        gid == current_graph_task_id(s)
        rest == [s.calls EXCEPT ![n].todo = Tail(@)]
    IN IF o.t = "holder"
       THEN [s EXCEPT !.calls = Append(rest,
                                   UnpackAct(o.holder, o.frames, gid, s.checkpoint_stacks)),
                      !.event = [NoEvent EXCEPT !.kind = "unpack", !.holder = o.holder,
                                    !.gid = gid, !.frames = o.frames]]
       ELSE [s EXCEPT !.calls = rest,
                      !.event = [NoEvent EXCEPT !.kind = "unpack_raw", !.val = o.val]]

\* The graph task ends; without retain_graph the graph frees what it saved.
CanGradDone(s) == TopIs(s, "grad") /\ TopAct(s).todo = <<>>

GradDone(s) ==
    LET n == Len(s.calls)
        g == s.calls[n]
        b == s.calls[n - 1]
        s1 == IF g.retain THEN s ELSE ReleaseSaved(s, b.saved)
    IN [s1 EXCEPT !.graph_task = Front(@),
                  !.calls = Append(SubSeq(s.calls, 1, n - 2),
                                [b EXCEPT !.pc = @ + 1,
                                          !.saved = IF g.retain THEN @ ELSE <<>>]),
                  !.event = [NoEvent EXCEPT !.kind = "grad_done"]]

\* The user function returns into _checkpoint_impl: the hooks context exits and
\* line 817 pops the frame from the stack it was pushed on.
CanImplReturn(s) ==
    /\ TopIs(s, "body")
    /\ TopAct(s).pc > Len(Code(TopAct(s)))
    /\ s.calls[Len(s.calls) - 1].k = "impl"

checkpoint_impl_return(s) ==
    LET n == Len(s.calls)
        b == s.calls[n]
        impl == s.calls[n - 1]
        rest == SubSeq(s.calls, 1, n - 2)
        s1 == [s EXCEPT !.hooks = Front(@),
                        !.checkpoint_stacks[impl.entry].stack = Front(@),
                        !.event = [NoEvent EXCEPT !.kind = "exit", !.frame = impl.frame]]
    IN IF rest = <<>>
       THEN [s1 EXCEPT !.calls = <<>>,
                       !.graph = b.saved,
                       !.results = Append(@, Outcome("returned", NoVal))]
       ELSE [s1 EXCEPT !.calls = [rest EXCEPT ![n - 2].pc = @ + 1,
                                              ![n - 2].saved = @ \o b.saved]]

\* ------------------------------------------ _checkpoint_hook.unpack_hook
\* Whether the restore being finished was requested by the user or by the
\* original forward (and not from inside a recomputation).
Original(s) == \A j \in 1..(Len(s.calls) - 1) : s.calls[j].k # "unpack"

\* One iteration of the loop of lines 689-708, up to the call of recompute_fn
\* at line 702.
CanUnpackIter(s) ==
    /\ TopIs(s, "unpack")
    /\ ~TopAct(s).running
    /\ TopAct(s).i < Len(TopAct(s).frames)

\* The flag of line 691 never read as set.
IsRecomputedNever(fr, gid) == FALSE

\* The flag of line 691 kept per frame and not per identifier.
IsRecomputedAnyId(fr, gid) == fr.is_recomputed # {}

\* if frame.is_recomputed[gid] (line 691)
IsRecomputed(fr, gid) == gid \in fr.is_recomputed

unpack_hook_iter(s) ==
    LET n == Len(s.calls)
        u == s.calls[n]
        frames == u.frames
        gid == u.gid
        frame == frames[u.i + 1]
        fr == s.frames[frame]
        \* frames[i - 1] of Python: index -1 is the last element
        prev == frames[IF u.i = 0 THEN Len(frames) ELSE u.i]
        Recompute(got) ==
          IF got.exc # "none"
          THEN [s EXCEPT !.exc = got.exc,
                         !.event = [NoEvent EXCEPT !.kind = "raise", !.frame = frame,
                                       !.gid = gid]]
          ELSE [s EXCEPT
               !.checkpoint_stacks = Append(@, CheckpointStack(<<>>, TRUE)),
               !.hooks = Append(@, RecomputationHook(frame, gid)),
               !.ncalls = Put(@, <<frame, gid>>, Get(@, <<frame, gid>>, 0) + 1),
               !.holders = [h \in DOMAIN @ |->
                               IF @[h].frame = frame THEN [@[h] EXCEPT !.stale = FALSE]
                               ELSE @[h]],
               !.calls = Append([@ EXCEPT ![n].running = TRUE],
                                BodyAct(fr.recompute_fn, got.args, <<frame, gid>>,
                                        fr.closure)),
               !.event = [NoEvent EXCEPT !.kind = "recompute", !.frame = frame,
                             !.gid = gid, !.args = got.args, !.pos = u.i,
                             !.frames = frames]]
    IN IF IsRecomputed(fr, gid)
       THEN [s EXCEPT !.calls[n].i = @ + 1,
                      !.event = [NoEvent EXCEPT !.kind = "continue", !.frame = frame,
                                    !.gid = gid]]
       ELSE IF ~IsNone(fr.maybe_args)
       THEN Recompute([exc |-> "none", args |-> fr.maybe_args[1]])
       ELSE IF IsNone(fr.args_idx)
       THEN Recompute([exc |-> "AssertionError", args |-> <<>>])
       ELSE Recompute(get_args_from_parent(s, fr.args_idx[1], prev, gid, <<>>))

\* recompute_fn returned normally: the hooks context exits, line 703 asserts
\* that early stop is off, line 708 marks the frame.  The tensors of the
\* recomputation graph are released with it.
CanRecomputeReturn(s) ==
    /\ TopIs(s, "body")
    /\ TopAct(s).pc > Len(Code(TopAct(s)))
    /\ s.calls[Len(s.calls) - 1].k = "unpack"

unpack_hook_return(s) ==
    LET n == Len(s.calls)
        b == s.calls[n]
        u == s.calls[n - 1]
        frame == u.frames[u.i + 1]
        s1 == ReleaseSaved(s, b.saved)
    IN IF s.enable_checkpoint_early_stop
       THEN [s1 EXCEPT !.hooks = Front(@),
                       !.calls = [Front(@) EXCEPT ![n - 1].running = FALSE],
                       !.exc = "AssertionError",
                       !.event = [NoEvent EXCEPT !.kind = "raise", !.frame = frame,
                                     !.gid = u.gid]]
       ELSE [s1 EXCEPT !.hooks = Front(@),
                       !.calls = [Front(@) EXCEPT ![n - 1].i = @ + 1,
                                                  ![n - 1].running = FALSE],
                       !.frames[frame].is_recomputed = @ \cup {u.gid},
                       !.event = [NoEvent EXCEPT !.kind = "recomputed", !.frame = frame,
                                     !.gid = u.gid, !.orig = FALSE]]

\* except _StopRecomputationError (lines 705-708): the hooks context has
\* exited, the stack pushed at line 699 is popped, the frame is marked.
\* No except clause for the signal.
CanCatchNever(s) == FALSE

CanCatch(s) ==
    /\ s.exc = "_StopRecomputationError"
    /\ s.calls # <<>>
    /\ TopAct(s).k = "unpack"
    /\ TopAct(s).running

unpack_hook_except(s) ==
    LET n == Len(s.calls)
        u == s.calls[n]
        frame == u.frames[u.i + 1]
    IN [s EXCEPT !.exc = "none",
                 !.hooks = Front(@),
                 !.checkpoint_stacks = Front(@),
                 !.calls[n].i = @ + 1,
                 !.calls[n].running = FALSE,
                 !.frames[frame].is_recomputed = @ \cup {u.gid},
                 !.event = [NoEvent EXCEPT !.kind = "recomputed", !.frame = frame,
                               !.gid = u.gid, !.orig = TRUE]]

\* The holder keeps its handle when its value is returned.
ConsumeKeepHandle(h) == [h EXCEPT !.stale = TRUE]

\* holder.handle = None (line 723); the holder is now consumed.
Consume(h) == [h EXCEPT !.handle = None, !.stale = TRUE]

\* The handles among hs that no holder refers to any more.
Unreferenced(hs, hold) == hs \ {hold[h].handle : h \in DOMAIN hold}

\* A lookup that answers a missing key with an empty tensor.
LookupOrDefault(cache, key) ==
    IF key \in DOMAIN cache THEN Some(cache[key]) ELSE Some(NoVal)

\* holder.handle in top_frame.recomputed[gid], and the value if so
\* (lines 715 and 722).
Lookup(cache, key) == IF key \in DOMAIN cache THEN Some(cache[key]) ELSE NoneType

\* The end of unpack_hook, lines 710-724.
CanUnpackFinish(s) ==
    /\ TopIs(s, "unpack")
    /\ ~TopAct(s).running
    /\ TopAct(s).i = Len(TopAct(s).frames)

unpack_hook_finish(s) ==
    LET n == Len(s.calls)
        u == s.calls[n]
        top_frame == Last(u.frames)
        handle == s.holders[u.holder].handle
        key == <<u.gid, handle>>
        cache == s.frames[top_frame].recomputed
        ev == [NoEvent EXCEPT !.holder = u.holder, !.gid = u.gid, !.frame = top_frame,
                  !.frames = u.frames, !.stacks = u.stacks, !.handle = handle,
                  !.orig = s.holders[u.holder].stale]
    IN IF handle = None
       THEN [s EXCEPT !.exc = "RuntimeError: only once",
                      !.event = [ev EXCEPT !.kind = "unpack_raise"]]
       ELSE IF IsNone(Lookup(cache, key))
       THEN [s EXCEPT !.exc = "RuntimeError: without recomputation",
                      !.event = [ev EXCEPT !.kind = "unpack_raise"]]
       ELSE LET ret == Lookup(cache, key)[1]
                consumed == [s.holders EXCEPT ![u.holder] =
                                [Consume(@) EXCEPT !.gids = @ \cup {u.gid}]]
            IN [s EXCEPT
                  !.holders = consumed,
                  !.frames = WeakKeyDictionary(@, Unreferenced({handle}, consumed)),
                  !.calls = Front(@),
                  !.results = IF Original(s) THEN Append(@, Outcome("restored", ret))
                              ELSE @,
                  !.event = [ev EXCEPT !.kind = "unpack_return", !.val = ret]]

\* ------------------------------------------------------------ exceptions
\* An exception leaves the innermost activation: a with block exits its hooks
\* context, a graph task ends, the tensors of a user function are released.
\* Nothing pops the frame _checkpoint_impl pushed, nor the stack pushed at
\* line 699.
CanUnwind(s) == s.exc # "none" /\ s.calls # <<>> /\ ~CanCatch(s)

Unwind(s) ==
    LET a == TopAct(s)
        s1 == IF a.k = "body" THEN ReleaseSaved(s, a.saved) ELSE s
    IN [s1 EXCEPT
          !.calls = Front(@),
          !.hooks = IF a.k = "impl" \/ (a.k = "unpack" /\ a.running) THEN Front(@) ELSE @,
          !.graph_task = IF a.k = "grad" THEN Front(@) ELSE @,
          !.event = [NoEvent EXCEPT !.kind = "unwind"]]

\* The exception reaches the user.
CanFail(s) == s.exc # "none" /\ s.calls = <<>>

Fail(s) ==
    [s EXCEPT !.exc = "none",
              !.failed = TRUE,
              !.graph_task = <<>>,
              !.results = Append(@, Outcome(s.exc, NoVal)),
              !.event = [NoEvent EXCEPT !.kind = "failed"]]

\* ------------------------------------------------- checkpoint_sequential
\* A range that stops after its first element.
PyRangeOnce(start, stop, step) == IF start >= stop THEN <<>> ELSE <<start>>

\* list(range(start, stop, step)) for step > 0.
RECURSIVE PyRangeStep(_, _, _)
PyRangeStep(start, stop, step) ==
    IF start >= stop THEN <<>> ELSE <<start>> \o PyRangeStep(start + step, stop, step)

\* run_function(start, end, functions)(input): functions[start..end] applied
\* in order.  A value is the list of the functions applied to the input.
RECURSIVE run_function(_, _, _, _)
run_function(start, end, functions, input) ==
    IF start > end THEN input
    ELSE run_function(start + 1, end, functions, Append(input, functions[start + 1]))

\* One call made by checkpoint_sequential: the functions it applied and
\* whether it was made through checkpoint.
Chunk(checkpointed, start, end, functions) ==
    [checkpointed |-> checkpointed, fns |-> run_function(start, end, functions, <<>>)]

NotCalled ==
    [functions |-> <<>>, segments |-> 0, called |-> FALSE, exc |-> "none",
     output |-> <<>>, chunks |-> <<>>]

\* The loop of lines 332-339 over the remaining starts.
RECURSIVE SequentialLoop(_, _, _, _)
SequentialLoop(r, starts, segment_size, end) ==
    IF starts = <<>>
    THEN [r EXCEPT
            !.output = run_function(end + 1, Len(r.functions) - 1, r.functions, @),
            !.chunks = Append(@, Chunk(FALSE, end + 1, Len(r.functions) - 1, r.functions))]
    ELSE SequentialLoop(
            [r EXCEPT
               !.output = run_function(Head(starts), Head(starts) + segment_size - 1,
                                       r.functions, @),
               !.chunks = Append(@, Chunk(TRUE, Head(starts),
                                          Head(starts) + segment_size - 1, r.functions))],
            Tail(starts), segment_size, Head(starts) + segment_size - 1)

\* checkpoint_sequential(functions, segments, input) for segments >= 0:
\* len(functions) // segments divides by zero when segments is 0, and range
\* refuses a step of zero.
checkpoint_sequential(functions, segments) ==
    LET r == [NotCalled EXCEPT !.functions = functions, !.segments = segments,
                               !.called = TRUE]
    IN IF segments = 0 THEN [r EXCEPT !.exc = "ZeroDivisionError"]
       ELSE IF Len(functions) \div segments = 0 THEN [r EXCEPT !.exc = "ValueError"]
       ELSE SequentialLoop(r,
                PyRangeStep(0, (Len(functions) \div segments) * (segments - 1),
                            Len(functions) \div segments),
                Len(functions) \div segments, -1)

\* ------------------------------------------------------- top-level calls
\* checkpoint(fn, x, use_reentrant=False) from the top level.
Input == Tensor("input", 0, 1, <<0, 0>>, 0)

Forward(s, fn) == checkpoint_impl([s EXCEPT !.nforward = @ + 1], fn, <<Input>>)

\* The placeholders of the top-level graph the engine or the user may restore.
Restorable(s) ==
    {j \in 1..Len(s.graph) : s.graph[j].t = "holder" /\ ~s.graph[j].input}

\* An identifier that is the same at every call.
uuidFixed(s) == 1

\* int(uuid.uuid4()) (line 687): an identifier never used before.
uuid4(s) == s.ngid + 1

\* A saved tensor of the top-level graph is needed.  begin: a new backward
\* invocation starts with this restore (the graph was retained); otherwise the
\* restore belongs to the invocation in progress, or to none (lines 684-687).
Restore(s, j, begin) ==
    LET o == s.graph[j]
        task == IF begin THEN <<s.ngid + 1>> ELSE s.graph_task
        gid == IF task = <<>> THEN uuid4(s) ELSE Last(task)
    IN [s EXCEPT
          !.ngid = IF begin \/ task = <<>> THEN @ + 1 ELSE @,
          !.graph_task = task,
          !.nrestore = @ + 1,
          !.calls = <<UnpackAct(o.holder, o.frames, gid, s.checkpoint_stacks)>>,
          !.event = [NoEvent EXCEPT !.kind = "unpack", !.holder = o.holder, !.gid = gid,
                        !.frames = o.frames, !.orig = begin \/ task = <<>>]]

\* A backward pass made without retain_graph over a part of the top-level
\* graph has run the _NoopSaveInputs node that saved object j belongs to:
\* backward (lines 569-571) reads no saved tensor, and the engine frees what
\* the node saved.
FreeSavedInput(s, j) ==
    [ReleaseSaved(s, <<s.graph[j]>>) EXCEPT
        !.graph[j] = NoObj,
        !.event = [NoEvent EXCEPT !.kind = "free", !.holder = s.graph[j].holder]]

\* The saved inputs of nested regions the top-level graph holds.
SavedInputs(s) == {j \in 1..Len(s.graph) : s.graph[j].t = "holder" /\ s.graph[j].input}

\* _reset_checkpoint_stacks
reset_checkpoint_stacks(s) ==
    [s EXCEPT !.checkpoint_stacks = <<CheckpointStack(<<>>, FALSE)>>,
              !.failed = FALSE,
              !.event = [NoEvent EXCEPT !.kind = "reset"]]

\* --------------------------------------------------------- the machine
\* One step of the interpreter: the state decides which handler runs.
Step(s) ==
    CASE CanBody(s, "save")    -> BodySave(s)
      [] CanBody(s, "call")    -> BodyCall(s)
      [] CanBody(s, "grad")    -> BodyGrad(s)
      [] CanBody(s, "raise")   -> BodyRaise(s)
      [] CanGradUnpack(s)      -> GradUnpack(s)
      [] CanGradDone(s)        -> GradDone(s)
      [] CanImplReturn(s)      -> checkpoint_impl_return(s)
      [] CanRecomputeReturn(s) -> unpack_hook_return(s)
      [] CanUnpackIter(s)      -> unpack_hook_iter(s)
      [] CanUnpackFinish(s)    -> unpack_hook_finish(s)
      [] CanCatch(s)           -> unpack_hook_except(s)
      [] CanUnwind(s)          -> Unwind(s)
      [] CanFail(s)            -> Fail(s)
      [] OTHER                 -> s

\* A top-level operation runs until control is back at the top level.
RECURSIVE Run(_)
Run(s) == IF Idle(s) THEN s ELSE Run(Step(s))

\* The same restore asked of another run of the program.
RestoreIfAny(s, j, begin) ==
    IF ~s.failed /\ j \in Restorable(s) THEN Restore(s, j, begin)
    ELSE [s EXCEPT !.results = Append(@, Outcome("no such placeholder", NoVal))]

VARIABLES frames, holders, nhandles, checkpoint_stacks, hooks, calls, exc,
          graph_task, ngid, graph, results, ncalls, enable_checkpoint_early_stop,
          nforward, failed, nrestore, event,
          twin,   \* the same operations with the other early-stop setting
          sequential   \* a call of checkpoint_sequential and its result

vars == <<frames, holders, nhandles, checkpoint_stacks, hooks, calls, exc,
          graph_task, ngid, graph, results, ncalls, enable_checkpoint_early_stop,
          nforward, failed, nrestore, event, twin, sequential>>

State ==
    [frames |-> frames, holders |-> holders, nhandles |-> nhandles,
     checkpoint_stacks |-> checkpoint_stacks, hooks |-> hooks, calls |-> calls,
     exc |-> exc, graph_task |-> graph_task, ngid |-> ngid, graph |-> graph,
     results |-> results, ncalls |-> ncalls,
     enable_checkpoint_early_stop |-> enable_checkpoint_early_stop,
     nforward |-> nforward, failed |-> failed, nrestore |-> nrestore, event |-> event]

Assign(t) ==
    /\ frames' = t.frames
    /\ holders' = t.holders
    /\ nhandles' = t.nhandles
    /\ checkpoint_stacks' = t.checkpoint_stacks
    /\ hooks' = t.hooks
    /\ calls' = t.calls
    /\ exc' = t.exc
    /\ graph_task' = t.graph_task
    /\ ngid' = t.ngid
    /\ graph' = t.graph
    /\ results' = t.results
    /\ ncalls' = t.ncalls
    /\ enable_checkpoint_early_stop' = t.enable_checkpoint_early_stop
    /\ nforward' = t.nforward
    /\ failed' = t.failed
    /\ nrestore' = t.nrestore
    /\ event' = t.event
    /\ sequential' = sequential

\* The next state is t (t is evaluated once).
Becomes(v) == \E t \in {v} : Assign(t)

Starts(t) ==
    /\ frames = t.frames
    /\ holders = t.holders
    /\ nhandles = t.nhandles
    /\ checkpoint_stacks = t.checkpoint_stacks
    /\ hooks = t.hooks
    /\ calls = t.calls
    /\ exc = t.exc
    /\ graph_task = t.graph_task
    /\ ngid = t.ngid
    /\ graph = t.graph
    /\ results = t.results
    /\ ncalls = t.ncalls
    /\ enable_checkpoint_early_stop = t.enable_checkpoint_early_stop
    /\ nforward = t.nforward
    /\ failed = t.failed
    /\ nrestore = t.nrestore
    /\ event = t.event

\* _enable_checkpoint_early_stop is False unless _set_checkpoint_early_stop
\* was entered; a run is made under either setting.
Init ==
    \E early_stop \in BOOLEAN :
        /\ \E t \in {InitState(early_stop)} : Starts(t)
        /\ twin = InitState(~early_stop)
        /\ sequential = NotCalled

\* ---------------------------------------------------------------- actions
\* The user calls checkpoint(fn, x) from the top level.
CallCheckpoint ==
    \E fn \in Roots :
        /\ Idle(State) /\ nforward = 0
        /\ Becomes(Forward(State, fn))
        /\ twin' = Run(Forward(twin, fn))

\* The engine, or the user, asks for a saved tensor of the top-level graph.
RequestRestore ==
    \E j \in Restorable(State), begin \in BOOLEAN :
        /\ Idle(State) /\ ~failed /\ nrestore < MaxRestore
        /\ Becomes(Restore(State, j, begin))
        /\ twin' = Run(RestoreIfAny(twin, j, begin))

\* After a failure the user calls _reset_checkpoint_stacks.
ResetStacks ==
    /\ Idle(State) /\ failed
    /\ Becomes(reset_checkpoint_stacks(State))
    /\ twin' = reset_checkpoint_stacks(twin)

PackHook == CanBody(State, "save") /\ Becomes(BodySave(State)) /\ UNCHANGED twin

NestedCheckpoint == CanBody(State, "call") /\ Becomes(BodyCall(State)) /\ UNCHANGED twin

GradCall == CanBody(State, "grad") /\ Becomes(BodyGrad(State)) /\ UNCHANGED twin

UserRaise == CanBody(State, "raise") /\ Becomes(BodyRaise(State)) /\ UNCHANGED twin

EngineUnpack == CanGradUnpack(State) /\ Becomes(GradUnpack(State)) /\ UNCHANGED twin

GradReturn == CanGradDone(State) /\ Becomes(GradDone(State)) /\ UNCHANGED twin

CheckpointReturn ==
    CanImplReturn(State) /\ Becomes(checkpoint_impl_return(State)) /\ UNCHANGED twin

RecomputeReturn ==
    CanRecomputeReturn(State) /\ Becomes(unpack_hook_return(State)) /\ UNCHANGED twin

UnpackIter == CanUnpackIter(State) /\ Becomes(unpack_hook_iter(State)) /\ UNCHANGED twin

UnpackFinish ==
    CanUnpackFinish(State) /\ Becomes(unpack_hook_finish(State)) /\ UNCHANGED twin

CatchStop == CanCatch(State) /\ Becomes(unpack_hook_except(State)) /\ UNCHANGED twin

Propagate == CanUnwind(State) /\ Becomes(Unwind(State)) /\ UNCHANGED twin

Uncaught == CanFail(State) /\ Becomes(Fail(State)) /\ UNCHANGED twin

Next ==
    \/ CallCheckpoint
    \/ RequestRestore
    \/ ResetStacks
    \/ PackHook
    \/ NestedCheckpoint
    \/ GradCall
    \/ UserRaise
    \/ EngineUnpack
    \/ GradReturn
    \/ CheckpointReturn
    \/ RecomputeReturn
    \/ UnpackIter
    \/ UnpackFinish
    \/ CatchStop
    \/ Propagate
    \/ Uncaught

Spec == Init /\ [][Next]_vars

\* ------------------------------------------- several checkpointed calls
\* The user calls checkpoint again from the top level, after an earlier call
\* has returned; the graph of the earlier call is dropped.
CallCheckpointAgain ==
    \E fn \in LaterRoots :
        /\ Idle(State) /\ ~failed /\ nforward >= 1 /\ nforward < MaxForward
        /\ Becomes(Forward(State, fn))
        /\ twin' = IF twin.failed THEN twin ELSE Run(Forward(twin, fn))

NextAgain == Next \/ CallCheckpointAgain

SpecAgain == Init /\ [][NextAgain]_vars

\* The user calls checkpoint again from the top level on a function that runs
\* a backward pass over the output of the call before.
CallCheckpointBackward ==
    \E fn \in BackwardRoots :
        /\ Idle(State) /\ ~failed /\ nforward >= 1 /\ nforward < MaxForward
        /\ Becomes(Forward(State, fn))
        /\ twin' = IF twin.failed THEN twin ELSE Run(Forward(twin, fn))

NextBackward == Next \/ CallCheckpointBackward

SpecBackward == Init /\ [][NextBackward]_vars

\* -------------------------------------------- backward over part of a graph
\* The engine frees the saved inputs of a nested region while placeholders of
\* the region stay in the graph: the region returned two outputs and a
\* backward pass without retain_graph ran over one of them.
FreeSavedInputs ==
    \E j \in SavedInputs(State) :
        /\ Idle(State) /\ ~failed
        /\ Becomes(FreeSavedInput(State, j))
        /\ twin' = IF j \in SavedInputs(twin) THEN FreeSavedInput(twin, j) ELSE twin

NextRelease == Next \/ FreeSavedInputs

SpecRelease == Init /\ [][NextRelease]_vars

\* ------------------------------------------------- checkpoint_sequential
\* A list of n distinct functions and a number of segments are chosen; the
\* one action calls checkpoint_sequential on them.
InitSequential ==
    /\ \E t \in {InitState(FALSE)} : Starts(t)
    /\ twin = InitState(TRUE)
    /\ \E n \in 0..MaxFunctions, segments \in 1..MaxSegments :
           sequential = [NotCalled EXCEPT !.functions = [j \in 1..n |-> j],
                                          !.segments = segments]

CallSequential ==
    /\ ~sequential.called
    /\ sequential' = checkpoint_sequential(sequential.functions, sequential.segments)
    /\ UNCHANGED <<frames, holders, nhandles, checkpoint_stacks, hooks, calls, exc,
                   graph_task, ngid, graph, results, ncalls,
                   enable_checkpoint_early_stop, nforward, failed, nrestore, event,
                   twin>>

NextSequential == CallSequential

SpecSequential == InitSequential /\ [][NextSequential]_vars

\* -------------------------------------------------------------- properties
Calls(frame, gid) == Get(ncalls, <<frame, gid>>, 0)

Returned == event.kind = "unpack_return"

\* C1: for one backward identifier, recompute_fn of a frame is called at most
\* once, and when a restore has returned a value, it was called exactly once
\* for every frame of the captured sequence, however many placeholders of the
\* frame were restored.
C1_RecomputeOncePerId ==
    /\ \A key \in DOMAIN ncalls : ncalls[key] <= 1
    /\ Returned => \A j \in 1..Len(event.frames) : Calls(event.frames[j], event.gid) = 1

\* Two placeholders of a nested frame were restored under the one identifier
\* the frame was ever recomputed for.
C1_Witness ==
    /\ Returned
    /\ Len(event.frames) = 2
    /\ Cardinality({h \in DOMAIN holders :
                       holders[h].frame = event.frame /\ holders[h].stale}) = 2
    /\ {key \in DOMAIN ncalls : key[1] = event.frame} = {<<event.frame, event.gid>>}

\* C2: a successful restore of the placeholder recorded at position k of its
\* innermost frame returns the tensor the recomputation of that frame, for the
\* current identifier, produced at its k-th save: the tensor the placeholder
\* stands for, and no tensor of another position, frame or identifier.
C2_RestoredValue ==
    Returned =>
        /\ holders[event.holder].frame = Last(event.frames)
        /\ event.val.ord = holders[event.holder].pos
        /\ event.val.frame = Last(event.frames)
        /\ event.val.gid = event.gid
        /\ Content(event.val) = holders[event.holder].orig

\* The second position of a nested frame was restored.
C2_Witness ==
    /\ Returned
    /\ Len(event.frames) = 2
    /\ holders[event.holder].pos = 1

\* C3: right after a successful restore the holder's handle is None and no
\* recomputed cache of any frame, under any identifier, has an entry for the
\* handle that was consumed, whether the holder lives on or not.
C3_ConsumedHandleGone ==
    Returned =>
        /\ holders[event.holder].handle = None
        /\ \A f \in DOMAIN frames : \A key \in DOMAIN frames[f].recomputed :
               key[2] # event.handle

\* A holder of a retained graph is consumed for the first time in the second
\* of two passes, both of which recomputed its frame.
C3_Witness ==
    /\ Returned
    /\ calls = <<>>
    /\ holders[event.holder].alive
    /\ ~event.orig
    /\ Cardinality(frames[event.frame].is_recomputed) = 2

\* C4: a restore of a holder that was consumed, with no recomputation of its
\* frame started since, raises the RuntimeError of line 711 and returns nothing.
C4_DoubleConsumption ==
    (event.kind \in {"unpack_return", "unpack_raise"} /\ event.orig) =>
        /\ event.kind = "unpack_raise"
        /\ exc = "RuntimeError: only once"

\* The second restore of one holder within one backward invocation.
C4_Witness ==
    /\ event.kind = "unpack_raise"
    /\ event.orig
    /\ Calls(event.frame, event.gid) = 1

\* C5: a frame is skipped by the loop of unpack_hook only if it was recomputed
\* for the identifier of this restore: the flag of an earlier identifier does
\* not suppress the recomputation of a later pass over the retained graph.
C5_SecondPassRecomputes ==
    event.kind = "continue" => Calls(event.frame, event.gid) >= 1

\* The first restore of a second pass starts the recomputation of a frame
\* that is marked recomputed for the first identifier.
C5_Witness ==
    /\ event.kind = "recompute"
    /\ Len(calls) = 2
    /\ frames[event.frame].is_recomputed # {}
    /\ event.gid \notin frames[event.frame].is_recomputed

\* Every placeholder of the top-level graph a backward pass restores has been
\* consumed, and some frame was recomputed under another identifier than gid.
PassFinishedBefore(gid) ==
    /\ \A j \in Restorable(State) : holders[graph[j].holder].stale
    /\ \E key \in DOMAIN ncalls : key[2] # gid

CachedIds == UNION {{key[1] : key \in DOMAIN frames[f].recomputed} : f \in DOMAIN frames}

\* C6: when a backward pass over the retained graph begins after an earlier
\* pass has restored every placeholder of the graph, no recomputed cache of
\* any frame holds a value under the identifier of the earlier pass.
C6_FirstPassCleared ==
    (event.kind = "unpack" /\ event.orig /\ PassFinishedBefore(event.gid))
        => CachedIds = {}

\* Every region entered so far has a recompute_fn that replays its fn.
AllReplay == \A f \in DOMAIN frames : recompute_fn(frames[f].recompute_fn)
                                          = Body(frames[f].recompute_fn)

\* C7: whenever the program is idle, and every recompute_fn replays its fn,
\* the outcomes of the top-level operations made so far (returned calls,
\* restored values, exceptions) are those of the same operations run under the
\* other early-stop setting.
C7_EarlyStopEquivalence ==
    (Idle(State) /\ AllReplay) => results = twin.results

\* A backward call made by the body of a region of the original forward is
\* in progress.
InForwardGrad ==
    \E j \in 1..Len(calls) :
        /\ calls[j].k = "grad"
        /\ \A i \in 1..j : calls[i].k # "unpack"

\* The frame of the innermost region whose body is running.
RunningFrame ==
    LET impls == {j \in 1..Len(calls) : calls[j].k = "impl"}
    IN calls[CHOOSE j \in impls : \A i \in impls : i <= j].frame

\* C8: a restore made by a backward call inside the body of a region of the
\* original forward raises nothing in either setting, and the saves the body
\* makes after it are recorded on the frame of that region.
C8_RestoreInsideForward ==
    /\ InForwardGrad => exc \in {"none", "_StopRecomputationError"}
    /\ (event.kind = "pack_outer" /\ \A j \in 1..Len(calls) : calls[j].k # "unpack")
           => event.frame = RunningFrame

\* C9: when a restore returns, the global list of stacks is what it was when
\* the restore started, and whenever the top stack is marked recompute a
\* recompute_fn started by unpack_hook is running.
C9_StackBalanced ==
    /\ Returned => checkpoint_stacks = event.stacks
    /\ Last(checkpoint_stacks).is_recompute =>
           \E j \in 1..Len(calls) : calls[j].k = "unpack" /\ calls[j].running

\* C10: when unpack_hook starts recompute_fn of a frame of the captured
\* sequence, every earlier frame of the sequence is marked recomputed for the
\* identifier; a frame without own inputs is started with the values its
\* parent, the frame just before it, cached for this identifier at the
\* delegated positions: the inputs the frame was entered with.
C10_ParentFirst ==
    event.kind = "recompute" =>
        /\ \A j \in 1..event.pos : event.gid \in frames[event.frames[j]].is_recomputed
        /\ IsNone(frames[event.frame].maybe_args) =>
               /\ event.pos >= 1
               /\ event.frames[event.pos] = frames[event.frame].parent
               /\ Len(event.args) = Len(frames[event.frame].inputs)
               /\ \A j \in 1..Len(event.args) :
                      /\ Content(event.args[j]) = frames[event.frame].inputs[j]
                      /\ event.args[j].frame = frames[event.frame].parent
                      /\ event.args[j].gid = event.gid

\* The inner frame of a nested region starts its recomputation with the input
\* its parent recorded after a save of its own.
C10_Witness ==
    /\ event.kind = "recompute"
    /\ IsNone(frames[event.frame].maybe_args)
    /\ frames[event.frame].args_idx = Some(<<1>>)
    /\ Len(event.args) = 1

\* The innermost activation of unpack_hook on the call stack, 0 if none.
InnermostUnpack ==
    LET us == {j \in 1..Len(calls) : calls[j].k = "unpack"}
    IN IF us = {} THEN 0 ELSE CHOOSE j \in us : \A i \in us : i <= j

StopRaised == exc = "_StopRecomputationError"

\* C11: while _StopRecomputationError is in flight, the innermost unpack_hook
\* on the call stack is inside its try block, and the signal was raised for
\* the frame and identifier that unpack_hook is recomputing; no top-level
\* operation ever ends with the signal; a frame is marked recomputed for the
\* identifier after an aborted recomputation as after a completed one.
C11_StopCaughtAtBoundary ==
    /\ StopRaised =>
          /\ InnermostUnpack # 0
          /\ calls[InnermostUnpack].running
    /\ (StopRaised /\ event.kind = "pack_inner") =>
          /\ calls[InnermostUnpack].frames[calls[InnermostUnpack].i + 1] = event.frame
          /\ calls[InnermostUnpack].gid = event.gid
    /\ \A j \in 1..Len(results) : results[j].what # "_StopRecomputationError"
    /\ event.kind = "recomputed" => event.gid \in frames[event.frame].is_recomputed

\* An aborted recomputation started by a restore made inside a running
\* forward has just been caught and the frame marked.
C11_Witness ==
    /\ event.kind = "recomputed"
    /\ event.orig
    /\ InnermostUnpack > 1
    /\ exc = "none"
    /\ enable_checkpoint_early_stop

MissingRecomputedValue == "RuntimeError: without recomputation"

\* unpack_hook has every frame of its sequence marked and is about to look up
\* a handle that is set but has no entry in the innermost frame's cache.
ValueMissing ==
    /\ CanUnpackFinish(State)
    /\ holders[TopAct(State).holder].handle # None
    /\ <<TopAct(State).gid, holders[TopAct(State).holder].handle>>
           \notin DOMAIN frames[Last(TopAct(State).frames)].recomputed

\* C12: when every frame of the sequence is marked recomputed and the
\* innermost frame's cache has no entry for the holder's handle, unpack_hook
\* raises the RuntimeError of line 716, leaves every holder and every frame as
\* it was and calls no recompute_fn; the error is never caught: it stays in
\* flight until it reaches the top-level caller.
C12_MissingValueFails ==
    [][/\ ValueMissing =>
             /\ exc' = MissingRecomputedValue
             /\ holders' = holders
             /\ frames' = frames
             /\ ncalls' = ncalls
       /\ exc = MissingRecomputedValue =>
             \/ exc' = MissingRecomputedValue /\ ncalls' = ncalls /\ holders' = holders
             \/ /\ calls = <<>>
                /\ failed'
                /\ Last(results').what = MissingRecomputedValue]_vars

\* The error was raised for a holder whose handle is still set, after a
\* recomputation that ran to its end without producing the value.
C12_Witness ==
    /\ event.kind = "unpack_raise"
    /\ exc = MissingRecomputedValue
    /\ holders[event.holder].handle # None
    /\ event.gid \in frames[event.frame].is_recomputed
    /\ Calls(event.frame, event.gid) = 1

\* The user function is about to call checkpoint while a frame is innermost
\* on the current stack entry.
EntersUnderParent ==
    /\ CanBody(State, "call")
    /\ Last(checkpoint_stacks).stack # <<>>

\* C13: entering a region under a parent frame appends one holder per input,
\* each with a new handle and standing for that input, to the parent's
\* weak_holders and to no other frame's; the new frame's args_idx is the list
\* of the appended positions, the parent's child_args_idx is extended by them,
\* and the new frame's maybe_args stays None.
C13_InputsDelegated ==
    [][EntersUnderParent =>
          LET parent == Last(Last(checkpoint_stacks).stack)
              n == CurOp(State).nargs
              pre == Len(frames[parent].weak_holders)
              new == Len(frames) + 1
              indices == PyRange(pre, pre + n)
          IN /\ exc' = "none"
             /\ Len(frames') = new
             /\ Len(holders') = Len(holders) + n
             /\ frames'[parent].weak_holders =
                    frames[parent].weak_holders \o [j \in 1..n |-> Len(holders) + j]
             /\ \A f \in DOMAIN frames \ {parent} :
                    frames'[f].weak_holders = frames[f].weak_holders
             /\ \A j \in 1..n :
                    /\ holders'[Len(holders) + j].handle > nhandles
                    /\ holders'[Len(holders) + j].alive
                    /\ holders'[Len(holders) + j].orig
                           = Content(TopAct(State').args[j])
                    /\ \A i \in 1..n : i # j =>
                           holders'[Len(holders) + i].handle
                               # holders'[Len(holders) + j].handle
             /\ frames'[new].args_idx = Some(indices)
             /\ frames'[parent].child_args_idx = frames[parent].child_args_idx \o indices
             /\ IsNone(frames'[new].maybe_args)
             /\ frames'[new].weak_holders = <<>>]_vars

\* A region was entered under a parent that had recorded a save of its own:
\* the input went to position 1 of the parent.
C13_Witness ==
    /\ event.kind = "enter"
    /\ event.frames # <<>>
    /\ frames[event.frame].args_idx = Some(<<1>>)
    /\ frames[Last(event.frames)].child_args_idx = <<1>>
    /\ Len(frames[Last(event.frames)].weak_holders) = 2

\* A recompute_fn started by unpack_hook is running.
Recomputing == \E j \in 1..Len(calls) : calls[j].k = "unpack" /\ calls[j].running

\* C14: a region entered on a stack entry without frames owns its inputs
\* (maybe_args); its inputs went through _applyAutogradFunctionToSaveInputs,
\* one save each, exactly if a recomputation is in progress; and its
\* recomputation is started with maybe_args, whatever its position in the
\* captured sequence.
C14_OwnInputs ==
    /\ (event.kind = "enter" /\ event.frames = <<>>) =>
          /\ frames[event.frame].maybe_args = Some(event.args)
          /\ IsNone(frames[event.frame].args_idx)
          /\ event.pos = IF Recomputing THEN Len(event.args) ELSE 0
    /\ (event.kind = "recompute" /\ ~IsNone(frames[event.frame].maybe_args)) =>
          event.args = frames[event.frame].maybe_args[1]

\* The restore at the bottom of the call stack was asked for outside of any
\* backward call.
OutsideBackward == graph_task = <<>> /\ nrestore >= 1

\* C15: a restore made outside of a backward call gets an identifier no frame
\* is marked for, no cache has a key of and no recompute_fn was called with;
\* its loop skips no frame, and when it ends every frame of its sequence has
\* been recomputed once for that identifier.
C15_FreshIdentifier ==
    /\ (event.kind = "unpack" /\ OutsideBackward) =>
          /\ \A f \in DOMAIN frames : event.gid \notin frames[f].is_recomputed
          /\ event.gid \notin CachedIds
          /\ \A key \in DOMAIN ncalls : key[2] # event.gid
    /\ (event.kind = "continue" /\ Len(calls) = 1) => ~OutsideBackward
    /\ (event.kind \in {"unpack_return", "unpack_raise"} /\ OutsideBackward
            /\ Len(calls) <= 1) =>
          \A j \in 1..Len(event.frames) : Calls(event.frames[j], event.gid) = 1

\* A second restore outside of a backward call has returned a value of a
\* nested region whose frames were both recomputed by the first as well, and
\* values cached by the first are still there.
C15_Witness ==
    /\ event.kind = "unpack_return"
    /\ OutsideBackward
    /\ calls = <<>>
    /\ Len(event.frames) = 2
    /\ \A j \in 1..2 : Cardinality(frames[event.frames[j]].is_recomputed) = 2
    /\ Cardinality(CachedIds) >= 1

\* The j-th chunk of the claim, as the list of the functions it holds.
ClaimedChunk(j) ==
    LET n == Len(sequential.functions)
        size == n \div sequential.segments
    IN IF j < sequential.segments
       THEN SubSeq(sequential.functions, (j - 1) * size + 1, j * size)
       ELSE SubSeq(sequential.functions, (j - 1) * size + 1, n)

\* C16: a call of checkpoint_sequential returns the input with every function
\* of the list applied once, in list order, in exactly `segments` calls: the
\* first segments-1, through checkpoint, of len(functions) // segments
\* consecutive functions each, and the last, not through checkpoint, of all
\* the remaining functions.
C16_SequentialChunks ==
    sequential.called =>
        /\ sequential.exc = "none"
        /\ sequential.output = sequential.functions
        /\ Len(sequential.chunks) = sequential.segments
        /\ \A j \in 1..Len(sequential.chunks) :
              /\ sequential.chunks[j].checkpointed = (j < sequential.segments)
              /\ sequential.chunks[j].fns = ClaimedChunk(j)

\* C16 as amended: when 1 <= segments <= len(functions) the call does what
\* C16 says; when segments > len(functions) it raises ValueError and applies
\* no function.
C16_SequentialChunksInRange ==
    sequential.called =>
        IF sequential.segments <= Len(sequential.functions)
        THEN C16_SequentialChunks
        ELSE /\ sequential.exc = "ValueError"
             /\ sequential.output = <<>>
             /\ sequential.chunks = <<>>

\* Seven functions in three segments: two checkpointed chunks of two functions
\* and a last chunk of three.
C16_Witness ==
    /\ sequential.called
    /\ Len(sequential.functions) = 7
    /\ sequential.segments = 3
    /\ Len(sequential.chunks) = 3
    /\ Len(sequential.chunks[3].fns) = 3

\* Every saved object autograd holds: those of the graphs under construction,
\* those a backward call has still to restore, those of the top-level graph.
SavedObjects ==
    UNION ({Range(calls[j].saved) \cup Range(calls[j].todo) : j \in 1..Len(calls)}
               \cup {Range(graph)})

Placeholders == {o \in SavedObjects : o.t = "holder"}

\* fs lists a chain of nested regions, outermost first: its first frame was
\* entered on an empty stack, each other frame under the frame before it.
NestingChain(fs) ==
    /\ fs # <<>>
    /\ frames[fs[1]].parent = 0
    /\ \A i \in 2..Len(fs) : frames[fs[i]].parent = fs[i - 1]

\* C17: the frames _checkpoint_hook.pack_hook returns are the stack of the
\* current entry at that instant; and whatever is pushed or popped later, the
\* sequence a placeholder holds stays the chain of regions, outermost first,
\* that ends with the frame the holder was recorded on.
C17_FramesCaptured ==
    /\ event.kind = "pack_outer" =>
          /\ event.frames = Last(checkpoint_stacks).stack
          /\ Last(TopAct(State).saved).frames = event.frames
          /\ Last(TopAct(State).saved).holder = event.holder
    /\ \A o \in Placeholders :
          /\ NestingChain(o.frames)
          /\ Last(o.frames) = holders[o.holder].frame

\* A placeholder saved in a nested region still holds both frames after both
\* regions have exited and every stack is empty.
C17_Witness ==
    /\ calls = <<>>
    /\ \A j \in 1..Len(checkpoint_stacks) : checkpoint_stacks[j].stack = <<>>
    /\ \E o \in Placeholders : Len(o.frames) = 2

\* The outer pack hook is the one that saves now.
OuterSaves == hooks # <<>> /\ Last(hooks).kind = "checkpoint"

\* C18: in every step, the weak_holders of each frame keeps what it had, in
\* order; a list grows only by saves of the outer pack hook, one new holder
\* with a new handle per save, and only the list of the frame that is last on
\* the current stack entry; a new frame starts with an empty list.
C18_HoldersAppendOnly ==
    [][/\ \A f \in DOMAIN frames :
             LET old == frames[f].weak_holders
                 new == frames'[f].weak_holders
             IN /\ Len(new) >= Len(old)
                /\ SubSeq(new, 1, Len(old)) = old
                /\ Len(new) > Len(old) =>
                      /\ OuterSaves
                      /\ Last(checkpoint_stacks).stack # <<>>
                      /\ f = Last(Last(checkpoint_stacks).stack)
                      /\ Len(new) - Len(old)
                             = IF CanBody(State, "save") THEN 1 ELSE CurOp(State).nargs
                      /\ \A i \in (Len(old) + 1)..Len(new) :
                            /\ new[i] \notin DOMAIN holders
                            /\ holders'[new[i]].handle > nhandles
                            /\ holders'[new[i]].handle <= nhandles'
       /\ \A f \in DOMAIN frames' \ DOMAIN frames : frames'[f].weak_holders = <<>>
       /\ (event'.kind = "pack_outer" /\ event' # event) =>
             /\ event'.frame \in DOMAIN frames
             /\ Len(frames'[event'.frame].weak_holders)
                    = Len(frames[event'.frame].weak_holders) + 1]_vars

\* The inner region of a nest has recorded its second holder while the outer
\* frame keeps the two it had.
C18_Witness ==
    /\ event.kind = "pack_outer"
    /\ Len(event.frames) = 2
    /\ event.pos = 1
    /\ Len(frames[event.frames[1]].weak_holders) = 2

\* The frames of the regions whose _checkpoint_impl is on the call stack and
\* was entered on stack entry e, in the order they were entered.
RunningRegions(e) ==
    LET impls == SelectSeq(calls, LAMBDA a : a.k = "impl" /\ a.entry = e)
    IN [i \in 1..Len(impls) |-> impls[i].frame]

\* C19: every stack entry holds exactly the frames of the regions that were
\* entered on it and have not exited, in the order of entry: a frame is pushed
\* on entry, stays where it was pushed while its body runs, and is gone once
\* its region has exited, by return or by an exception.
C19_FramePoppedOnExit ==
    /\ \A j \in 1..Len(calls) : calls[j].k = "impl" => calls[j].entry <= Len(checkpoint_stacks)
    /\ \A e \in 1..Len(checkpoint_stacks) : checkpoint_stacks[e].stack = RunningRegions(e)

\* The inner pack hook is the one that saves now, for frame and identifier
\* InnerTarget.
InnerSaves == hooks # <<>> /\ Last(hooks).kind = "recomputation"

InnerTarget == <<Last(hooks).frame, Last(hooks).gid>>

\* The user function is about to save a tensor through the inner pack hook at
\* a position whose weak holder is dead.
SavesOnDeadHolder ==
    /\ CanBody(State, "save")
    /\ InnerSaves
    /\ RecompIdx(frames[InnerTarget[1]], InnerTarget[2])
           < Len(frames[InnerTarget[1]].weak_holders)
    /\ ~holders[frames[InnerTarget[1]].weak_holders[
            RecompIdx(frames[InnerTarget[1]], InnerTarget[2]) + 1]].alive

\* C20: an inner save at a position whose weak holder is dead advances the
\* frame's counter for the identifier by one, leaves every cache and every
\* holder as it was and creates no handle; an inner save on a live holder is
\* at the position the holder was recorded at, dead positions before it
\* included.
C20_DeadHolderSkipped ==
    [][/\ SavesOnDeadHolder =>
             /\ RecompIdx(frames'[InnerTarget[1]], InnerTarget[2])
                    = RecompIdx(frames[InnerTarget[1]], InnerTarget[2]) + 1
             /\ \A f \in DOMAIN frames : frames'[f].recomputed = frames[f].recomputed
             /\ holders' = holders
             /\ nhandles' = nhandles
       /\ (event'.kind = "pack_inner" /\ event' # event /\ holders'[event'.holder].alive) =>
             /\ holders'[event'.holder].pos = event'.pos
             /\ holders'[event'.holder].frame = event'.frame
             /\ <<event'.gid, holders'[event'.holder].handle>>
                    \in DOMAIN frames'[event'.frame].recomputed]_vars

\* After an inner save skipped the dead holder of position 0, the save at
\* position 1 found its live holder.
C20_Witness ==
    /\ event.kind = "pack_inner"
    /\ event.pos = 1
    /\ holders[event.holder].alive
    /\ ~holders[frames[event.frame].weak_holders[1]].alive
    /\ frames[event.frame].recomp_counter[event.gid] = 2

\* The j-th activation is unpack_hook restoring, under an identifier it was not
\* consumed under, a holder that was consumed before.
RestoresAgain(j) ==
    /\ calls[j].k = "unpack"
    /\ holders[calls[j].holder].gids # {}
    /\ calls[j].gid \notin holders[calls[j].holder].gids

\* C21: an inner save on a live holder whose handle is None gives the holder
\* a handle that did not exist and caches the value under it, an inner save on
\* a live holder whose handle is set keeps the handle and caches under it; and
\* a restore, under a new identifier, of a holder that was consumed before
\* raises nothing.
C21_HandleRenewed ==
    [][/\ (event'.kind = "pack_inner" /\ event' # event /\ holders'[event'.holder].alive) =>
             /\ IF holders[event'.holder].handle = None
                THEN /\ holders'[event'.holder].handle > nhandles
                     /\ holders'[event'.holder].handle = nhandles'
                ELSE /\ holders'[event'.holder].handle = holders[event'.holder].handle
                     /\ nhandles' = nhandles
             /\ <<event'.gid, holders'[event'.holder].handle>>
                    \in DOMAIN frames'[event'.frame].recomputed
             /\ frames'[event'.frame].recomputed[<<event'.gid, holders'[event'.holder].handle>>]
                    = event'.val
       /\ \A j \in 1..Len(calls') :
             RestoresAgain(j)' => exc' \in {"none", "_StopRecomputationError"}]_vars

\* A holder consumed under one identifier has been restored under another.
C21_Witness ==
    /\ Returned
    /\ Cardinality(holders[event.holder].gids) = 2

\* The position of the live holder that holds handle h.
PositionOf(h) == holders[CHOOSE i \in DOMAIN holders : holders[i].handle = h].pos

\* The values the inner pack hook returned that autograd still holds.
ReplayedValues == {o.val : o \in {o \in SavedObjects : o.t = "raw" /\ o.val.frame # 0}}

\* C22: every value in a frame's cache is attached to its graph exactly if
\* the position of its holder is in the frame's child_args_idx, and detached
\* otherwise; every value the inner pack hook handed back for the graph being
\* replayed is detached, the one saved at a child position included.
C22_CachedConnectedIffChild ==
    /\ \A f \in DOMAIN frames : \A key \in DOMAIN frames[f].recomputed :
          /\ \E i \in DOMAIN holders : holders[i].handle = key[2] /\ holders[i].frame = f
          /\ frames[f].recomputed[key].detached
                 = (PositionOf(key[2]) \notin Range(frames[f].child_args_idx))
    /\ \A x \in ReplayedValues : x.detached
    /\ (event.kind = "pack_inner" /\ exc = "none") =>
          /\ Last(TopAct(State).saved).t = "raw"
          /\ Last(TopAct(State).saved).val = detach(event.val)
          /\ event.val.detached
                 = (event.pos \notin Range(frames[event.frame].child_args_idx))

\* One cache holds, for one identifier, an attached value at a child position
\* and a detached value, and the graph being replayed holds the detached copy
\* of the first.
C22_Witness ==
    \E f \in DOMAIN frames : \E k1, k2 \in DOMAIN frames[f].recomputed :
        /\ k1[1] = k2[1]
        /\ ~frames[f].recomputed[k1].detached
        /\ frames[f].recomputed[k2].detached
        /\ detach(frames[f].recomputed[k1]) \in ReplayedValues

\* C23: with early stop enabled, and every recompute_fn replaying its fn, no
\* recompute_fn started by unpack_hook reaches its end (line 703 is never
\* reached), and the stop signal is raised by an inner save exactly when that
\* save brought the frame's counter for the identifier to the number of
\* holders recorded for the frame.
C23_RecomputeEndsByAbort ==
    (enable_checkpoint_early_stop /\ AllReplay) =>
        /\ ~CanRecomputeReturn(State)
        /\ event.kind = "pack_inner" =>
               (StopRaised <=> RecompIdx(frames[event.frame], event.gid)
                                  = Len(frames[event.frame].weak_holders))

\* The next step of the user function saves a tensor through the inner pack
\* hook: a tensor operation, or the input of a region it enters.
AboutToSaveInner ==
    /\ InnerSaves
    /\ \/ CanBody(State, "save")
       \/ CanBody(State, "call") /\ CurOp(State).nargs > 0

\* C24: when every recompute_fn replays its fn, each inner save finds the
\* frame's counter for the identifier below the number of holders recorded
\* for the frame, in either early-stop setting, the frame's own forward still
\* running or not.
C24_CounterInRange ==
    (AllReplay /\ AboutToSaveInner) =>
        RecompIdx(frames[InnerTarget[1]], InnerTarget[2])
            < Len(frames[InnerTarget[1]].weak_holders)

\* The next step of the user function saves a tensor through the outer pack
\* hook: a tensor operation, or the input of a region it enters where
\* _checkpoint_impl saves inputs (lines 805-810).
AboutToSaveOuter ==
    /\ OuterSaves
    /\ \/ CanBody(State, "save")
       \/ /\ CanBody(State, "call")
          /\ CurOp(State).nargs > 0
          /\ \/ Last(checkpoint_stacks).stack # <<>>
             \/ Last(checkpoint_stacks).is_recompute

\* C25: whenever the outer pack hook is about to run, the last entry of
\* _checkpoint_stacks has at least one frame, and its last frame is the frame
\* of the region whose body is running.
C25_OuterSaveFindsFrame ==
    AboutToSaveOuter =>
        /\ Last(checkpoint_stacks).stack # <<>>
        /\ Last(Last(checkpoint_stacks).stack) = RunningFrame

\* unpack_hook is about to recompute a frame that does not own its inputs.
DelegatedRecompute ==
    /\ CanUnpackIter(State)
    /\ ~IsRecomputed(frames[TopAct(State).frames[TopAct(State).i + 1]], TopAct(State).gid)
    /\ IsNone(frames[TopAct(State).frames[TopAct(State).i + 1]].maybe_args)

\* C26: when unpack_hook is about to recompute a frame that does not own its
\* inputs, the frame has args_idx, and every position of it is a position of
\* the frame before it in the sequence whose holder is alive, has a handle,
\* and has a value under that handle in that frame's cache for the
\* identifier: get_args_from_parent raises nothing.
C26_ParentInputsAvailable ==
    DelegatedRecompute =>
        LET u == TopAct(State)
            fr == frames[u.frames[u.i + 1]]
            pf == frames[u.frames[IF u.i = 0 THEN Len(u.frames) ELSE u.i]]
        IN /\ ~IsNone(fr.args_idx)
           /\ \A idx \in Range(fr.args_idx[1]) :
                 /\ idx < Len(pf.weak_holders)
                 /\ holders[pf.weak_holders[idx + 1]].alive
                 /\ holders[pf.weak_holders[idx + 1]].handle # None
                 /\ <<u.gid, holders[pf.weak_holders[idx + 1]].handle>>
                        \in DOMAIN pf.recomputed

\* C27: every frame that was pushed has maybe_args or args_idx and not both;
\* in every sequence of frames a placeholder holds, the first frame has
\* maybe_args, and every frame without maybe_args was entered under the frame
\* just before it in the sequence.
C27_OneProvenance ==
    /\ \A f \in DOMAIN frames :
          frames[f].pushed => (IsNone(frames[f].maybe_args) # IsNone(frames[f].args_idx))
    /\ \A o \in Placeholders :
          /\ ~IsNone(frames[o.frames[1]].maybe_args)
          /\ \A i \in 2..Len(o.frames) :
                IsNone(frames[o.frames[i]].maybe_args) =>
                    frames[o.frames[i]].parent = o.frames[i - 1]

\* A placeholder holds a frame that owns its inputs followed by a frame whose
\* inputs are delegated to it, while a region entered during a recomputation
\* owns inputs that went through _applyAutogradFunctionToSaveInputs.
C27_Witness ==
    /\ \E o \in Placeholders :
          /\ Len(o.frames) = 2
          /\ ~IsNone(frames[o.frames[2]].args_idx)
          /\ frames[o.frames[2]].parent = o.frames[1]
    /\ event.kind = "enter"
    /\ event.orig
    /\ event.pos = 1
    /\ frames[event.frame].pushed

\* No two holders hold the same handle.
HandlesDistinct ==
    \A h1, h2 \in DOMAIN holders :
        (h1 # h2 /\ holders[h1].handle # None) => holders[h1].handle # holders[h2].handle

\* C28: no two holders hold the same handle, and no holder has had its handle
\* cleared more than once.
C28_HandleClearedOnce ==
    /\ HandlesDistinct
    /\ \A h \in DOMAIN holders : Cardinality(holders[h].gids) <= 1

\* C28 as amended: no two holders hold the same handle; the handle of a
\* holder that stays alive goes from set to None only when unpack_hook returns
\* the value of that holder, under an identifier the holder was not consumed
\* under before; a holder never gets back a handle it held: the handle it is
\* given was created by that save, so each handle is cleared at most once,
\* and a holder once per backward pass that restores it.
C28_HandleClearedOncePerPass ==
    [][/\ HandlesDistinct'
       /\ \A h \in DOMAIN holders :
             /\ (holders[h].handle # None /\ holders'[h].handle = None /\ holders'[h].alive) =>
                   /\ event'.kind = "unpack_return"
                   /\ event'.holder = h
                   /\ event'.handle = holders[h].handle
                   /\ event'.gid \notin holders[h].gids
                   /\ holders'[h].gids = holders[h].gids \cup {event'.gid}
             /\ holders'[h].handle \notin {None, holders[h].handle} =>
                   /\ holders[h].handle = None
                   /\ holders'[h].handle > nhandles
                   /\ event'.kind \in {"pack_inner", "enter"}
             /\ holders'[h].gids # holders[h].gids =>
                   (holders[h].handle # None /\ holders'[h].handle = None)
       /\ \A h \in DOMAIN holders' \ DOMAIN holders :
             /\ holders'[h].handle > nhandles
             /\ holders'[h].gids = {}]_vars

\* A holder has been consumed in two passes, each time with a handle of its
\* own: more handles than holders were created.
C28_Witness ==
    /\ Returned
    /\ holders[event.holder].handle = None
    /\ Cardinality(holders[event.holder].gids) = 2
    /\ nhandles > Len(holders)

\* The recompute_fn of frame InnerTarget[1] is about to enter a region.
ReentersChild == CanBody(State, "call") /\ InnerSaves

\* C29: when the recompute_fn of a frame enters a region, the inputs of the
\* region are saved by the inner pack hook at the next positions of the frame,
\* which are the args_idx of a region the original forward entered under the
\* frame with the same function, and the values cached there are those the
\* holders of these positions stand for; the new frame owns its inputs and
\* starts with no holder; no other frame's counter or cache changes.  A save
\* made by the body of a region changes no frame's counter and no frame's
\* cache.  Every inner save on a live holder caches the tensor the holder
\* stands for, at the holder's position.
C29_ReplayedPositions ==
    [][/\ (ReentersChild /\ exc' \in {"none", "_StopRecomputationError"}) =>
             LET f == InnerTarget[1]
                 gid == InnerTarget[2]
                 pre == RecompIdx(frames[f], gid)
                 n == CurOp(State).nargs
             IN /\ RecompIdx(frames'[f], gid) = pre + n
                /\ \E c \in DOMAIN frames :
                      /\ frames[c].parent = f
                      /\ frames[c].recompute_fn = CurOp(State).fn
                      /\ frames[c].args_idx = Some(PyRange(pre, pre + n))
                /\ \A j \in 1..n :
                      LET h == frames[f].weak_holders[pre + j]
                      IN holders[h].alive =>
                            /\ <<gid, holders'[h].handle>> \in DOMAIN frames'[f].recomputed
                            /\ Content(frames'[f].recomputed[<<gid, holders'[h].handle>>])
                                   = holders[h].orig
                /\ \A g \in DOMAIN frames \ {f} :
                      /\ frames'[g].recomp_counter = frames[g].recomp_counter
                      /\ frames'[g].recomputed = frames[g].recomputed
                /\ frames'[f].weak_holders = frames[f].weak_holders
                /\ exc' = "none" =>
                      /\ ~IsNone(frames'[Len(frames) + 1].maybe_args)
                      /\ IsNone(frames'[Len(frames) + 1].args_idx)
                      /\ frames'[Len(frames) + 1].weak_holders = <<>>
       /\ (CanBody(State, "save") /\ OuterSaves) =>
             \A f \in DOMAIN frames :
                 /\ frames'[f].recomp_counter = frames[f].recomp_counter
                 /\ frames'[f].recomputed = frames[f].recomputed
       /\ (event'.kind = "pack_inner" /\ event' # event /\ holders'[event'.holder].alive) =>
             /\ holders'[event'.holder].frame = event'.frame
             /\ holders'[event'.holder].pos = event'.pos
             /\ holders'[event'.holder].orig = Content(event'.val)]_vars

\* During the recomputation of a frame that saved once and then entered a
\* region, the body of the re-entered region has made its second save and the
\* frame's counter stands at two: its own save and the input of the region.
C29_Witness ==
    /\ event.kind = "pack_outer"
    /\ event.pos = 1
    /\ Len(hooks) >= 2
    /\ hooks[Len(hooks) - 1].kind = "recomputation"
    /\ RecompIdx(frames[hooks[Len(hooks) - 1].frame], hooks[Len(hooks) - 1].gid) = 2
    /\ frames[hooks[Len(hooks) - 1].frame].child_args_idx = <<1>>

====
